---- MODULE Spec2Model ----
(***************************************************************************)
(* Model of update_schedule_data.py: the scrape pass and the metadata      *)
(* merge pass of process_data, with the helpers they call.                 *)
(*                                                                         *)
(* Python str values are sequences of one-character strings, so that       *)
(* split, regular-expression search and formatting are computed on the     *)
(* characters.  Python None is the value None below.                       *)
(***************************************************************************)
EXTENDS Integers, Sequences, FiniteSets, TLC

\* Python None.  It is a tuple so that it compares with str values; no str
\* equals it because every element of a str is a single character.
None == <<"None">>

----------------------------------------------------------------------------
\* str helpers

Digits == <<"0","1","2","3","4","5","6","7","8","9">>

Lower == {"a","b","c","d","e","f","g","h","i","j","k","l","m",
          "n","o","p","q","r","s","t","u","v","w","x","y","z"}

Upper == {"A","B","C","D","E","F","G","H","I","J","K","L","M",
          "N","O","P","Q","R","S","T","U","V","W","X","Y","Z"}

IsDigit(c) == \E i \in 1..10 : Digits[i] = c

DigitVal(c) == (CHOOSE i \in 1..10 : Digits[i] = c) - 1

\* s[a..b-1] in Python slice terms, on 1-based positions a..b-1
Slice(s, a, b) == [i \in 1..(b - a) |-> s[a + i - 1]]

\* the literal lit occurs in s at position p
StartsWith(s, p, lit) ==
    /\ p >= 1
    /\ p + Len(lit) - 1 <= Len(s)
    /\ \A i \in 1..Len(lit) : s[p + i - 1] = lit[i]

\* "lit in s"
Contains(s, lit) == \E p \in 1..(Len(s) + 1) : StartsWith(s, p, lit)

Min(a, b) == IF a < b THEN a ELSE b

RECURSIVE Flatten(_)
Flatten(ss) == IF ss = <<>> THEN <<>> ELSE Head(ss) \o Flatten(Tail(ss))

\* hi, hi-1, ..., lo
DescRange(hi, lo) == [i \in 1..(hi - lo + 1) |-> hi - i + 1]

\* int(s) for a str of decimal digits; ValueError otherwise
IsInt(s) == Len(s) >= 1 /\ \A i \in 1..Len(s) : IsDigit(s[i])

RECURSIVE ParseInt(_)
ParseInt(s) ==
    IF s = <<>> THEN 0
    ELSE 10 * ParseInt(Slice(s, 1, Len(s))) + DigitVal(s[Len(s)])

\* s.strip() for the blank and newline characters
IsSpace(c) == c \in {" ", "\n", "\t"}

RECURSIVE LStrip(_)
LStrip(s) == IF s # <<>> /\ IsSpace(Head(s)) THEN LStrip(Tail(s)) ELSE s

RECURSIVE RStrip(_)
RStrip(s) ==
    IF s # <<>> /\ IsSpace(s[Len(s)]) THEN RStrip(Slice(s, 1, Len(s))) ELSE s

Strip(s) == RStrip(LStrip(s))

\* s.split(sep) for a one-character separator: the list of fields
RECURSIVE Split(_, _)
Split(s, sep) ==
    IF \A i \in 1..Len(s) : s[i] # sep THEN <<s>>
    ELSE LET p == CHOOSE i \in 1..Len(s) :
                      s[i] = sep /\ \A j \in 1..(i - 1) : s[j] # sep
         IN  <<Slice(s, 1, p)>> \o Split(Slice(s, p + 1, Len(s) + 1), sep)

\* f"{n:02d}": decimal digits of n >= 0, zero-padded to at least two
RECURSIVE Str(_)
Str(n) == IF n < 10 THEN <<Digits[n + 1]>>
          ELSE Str(n \div 10) \o <<Digits[(n % 10) + 1]>>

Pad2(n) == IF n < 10 THEN <<"0">> \o Str(n) ELSE Str(n)

----------------------------------------------------------------------------
\* extract_id and is_youtube_id

L_https   == <<"h","t","t","p","s",":","/","/">>
L_http    == <<"h","t","t","p",":","/","/">>
L_www     == <<"w","w","w",".">>
L_youtube == <<"y","o","u","t","u","b","e",".","c","o","m","/">>
L_youtu   == <<"y","o","u","t","u",".","b","e","/">>
L_embed   == <<"e","m","b","e","d">>
L_watch   == <<"w","a","t","c","h","?","v","=">>
L_veq     == <<"v","=">>
L_abema   == <<"a","b","e","m","a">>

\* ends of (?:https?://)? tried in the order of the regex engine
OptScheme(url, s) ==
    (IF StartsWith(url, s, L_https) THEN <<s + 8>>
     ELSE IF StartsWith(url, s, L_http) THEN <<s + 7>> ELSE <<>>) \o <<s>>

\* ends of (?:www\.)?
OptWww(url, p) ==
    (IF StartsWith(url, p, L_www) THEN <<p + 4>> ELSE <<>>) \o <<p>>

\* end of the run of characters other than "/" that starts at q
RunEndSlash(url, q) ==
    CHOOSE e \in q..(Len(url) + 1) :
        /\ \A i \in q..(e - 1) : url[i] # "/"
        /\ (e = Len(url) + 1 \/ url[e] = "/")

\* end of the run that ".*" can take from q: "." matches no newline
RunEndDot(url, q) ==
    CHOOSE e \in q..(Len(url) + 1) :
        /\ \A i \in q..(e - 1) : url[i] # "\n"
        /\ (e = Len(url) + 1 \/ url[e] = "\n")

\* ends of  [^/]+/.*  from q: the longest run of non-slashes, a slash,
\* then .* greedy (longest first)
AltPath(url, q) ==
    LET r == RunEndSlash(url, q)
    IN  IF q <= Len(url) /\ r > q /\ r <= Len(url)
        THEN DescRange(RunEndDot(url, r + 1), r + 1)
        ELSE <<>>

\* ends of  v|e(?:mbed)?|watch\?v=  from q
AltWord(url, q) ==
    (IF StartsWith(url, q, <<"v">>) THEN <<q + 1>> ELSE <<>>)
    \o (IF StartsWith(url, q, L_embed) THEN <<q + 5>> ELSE <<>>)
    \o (IF StartsWith(url, q, <<"e">>) THEN <<q + 1>> ELSE <<>>)
    \o (IF StartsWith(url, q, L_watch) THEN <<q + 8>> ELSE <<>>)

\* ends of  .*[?&]v=  from q
AltQuery(url, q) ==
    LET ends == DescRange(RunEndDot(url, q), q)
        ok(e) == /\ e <= Len(url)
                 /\ url[e] \in {"?", "&"}
                 /\ StartsWith(url, e + 1, L_veq)
        hits == SelectSeq(ends, ok)
    IN  [i \in 1..Len(hits) |-> hits[i] + 3]

\* ends of (?:youtube\.com/(?:...)|youtu\.be/) from p
Body(url, p) ==
    (IF StartsWith(url, p, L_youtube)
     THEN AltPath(url, p + 12) \o AltWord(url, p + 12) \o AltQuery(url, p + 12)
     ELSE <<>>)
    \o (IF StartsWith(url, p, L_youtu) THEN <<p + 9>> ELSE <<>>)

\* ([^&]{11}) matches at c
CaptureOK(url, c) ==
    /\ c + 10 <= Len(url)
    /\ \A i \in c..(c + 10) : url[i] # "&"

\* starts of group 1 of every match of the pattern that begins at s, in the
\* order in which the backtracking engine finds them
Captures(url, s) ==
    LET P1 == OptScheme(url, s)
        P2 == Flatten([i \in 1..Len(P1) |-> OptWww(url, P1[i])])
        C  == Flatten([i \in 1..Len(P2) |-> Body(url, P2[i])])
        ok(c) == CaptureOK(url, c)
    IN  SelectSeq(C, ok)

\* re.search(pattern, url): group 1 of the leftmost match, or None
Search(url) ==
    IF \A s \in 1..(Len(url) + 1) : Captures(url, s) = <<>> THEN None
    ELSE LET s == CHOOSE t \in 1..(Len(url) + 1) :
                      /\ Captures(url, t) # <<>>
                      /\ \A u \in 1..(t - 1) : Captures(url, u) = <<>>
             c == Captures(url, s)[1]
         IN  Slice(url, c, c + 11)

extract_id(url) ==
    IF Contains(url, L_abema)
    THEN LET parts == Split(url, "/") IN parts[Len(parts)]
    ELSE Search(url)

IdChars == Lower \cup Upper \cup {Digits[i] : i \in 1..10} \cup {"_", "-"}

\* None is not a str, so isinstance fails for it; "$" also matches before a
\* newline that ends the str
is_youtube_id(video_id) ==
    /\ video_id # None
    /\ Len(video_id) = 11
    /\ LET body == IF video_id[11] = "\n" THEN Slice(video_id, 1, 11)
                   ELSE video_id
       IN  \A i \in 1..Len(body) : body[i] \in IdChars

----------------------------------------------------------------------------
\* results of calls that may raise

Ok(v) == [ok |-> TRUE, val |-> v, exc |-> "none"]

Raise(e) == [ok |-> FALSE, val |-> None, exc |-> e]

\* dict helpers: a dict is a function on its keys
EmptyDict == <<>>

Get(d, k, default) == IF k \in DOMAIN d THEN d[k] ELSE default

Update(d, u) ==
    [k \in (DOMAIN d) \cup (DOMAIN u) |-> IF k \in DOMAIN u THEN u[k] ELSE d[k]]

----------------------------------------------------------------------------
\* sanitize_text, format_duration, parse_duration

L_br == <<"<","b","r",">">>

RECURSIVE ReplaceNewlines(_)
ReplaceNewlines(text) ==
    IF text = <<>> THEN <<>>
    ELSE (IF Head(text) = "\n" THEN L_br ELSE <<Head(text)>>)
         \o ReplaceNewlines(Tail(text))

\* None and "" are both falsy
sanitize_text(text) ==
    IF text # None /\ text # <<>> THEN ReplaceNewlines(text) ELSE None

\* a timedelta is its whole number of seconds
format_duration(duration) ==
    LET days      == duration \div 86400
        seconds0  == duration % 86400
        hours0    == seconds0 \div 3600
        remainder == seconds0 % 3600
        minutes   == remainder \div 60
        seconds   == remainder % 60
        hours     == IF days # 0 THEN hours0 + days * 24 ELSE hours0
    IN  Pad2(hours) \o <<":">> \o Pad2(minutes) \o <<":">> \o Pad2(seconds)

\* end of the run of digits of s that starts at p
DigitsEnd(s, p) ==
    CHOOSE e \in p..(Len(s) + 1) :
        /\ \A i \in p..(e - 1) : IsDigit(s[i])
        /\ (e = Len(s) + 1 \/ ~IsDigit(s[e]))

\* seconds of the components  <n><designator>  of s, the designators taken
\* in the order of des, each at most once; -1 when s does not match
RECURSIVE Components(_, _)
Components(s, des) ==
    IF s = <<>> THEN 0
    ELSE LET e == DigitsEnd(s, 1)
         IN  IF e = 1 \/ e > Len(s) THEN -1
             ELSE IF \A j \in 1..Len(des) : des[j][1] # s[e] THEN -1
             ELSE LET j    == CHOOSE k \in 1..Len(des) : des[k][1] = s[e]
                      rest == Components(Slice(s, e + 1, Len(s) + 1),
                                         Slice(des, j + 1, Len(des) + 1))
                  IN  IF rest < 0 THEN -1
                      ELSE ParseInt(Slice(s, 1, e)) * des[j][2] + rest

\* isodate.parse_duration for durations of days, hours, minutes and whole
\* seconds (P[nD][T[nH][nM][nS]]); any other text raises ISO8601Error
parse_duration(text) ==
    IF Len(text) < 2 \/ text[1] # "P" THEN Raise("ISO8601Error")
    ELSE LET parts == Split(Slice(text, 2, Len(text) + 1), "T")
             date  == Components(parts[1], << <<"D", 86400>> >>)
             time  == IF Len(parts) = 1 THEN 0
                      ELSE Components(parts[2],
                               << <<"H", 3600>>, <<"M", 60>>, <<"S", 1>> >>)
         IN  IF Len(parts) > 2 \/ date < 0 \/ time < 0
             THEN Raise("ISO8601Error")
             ELSE Ok(date + time)

----------------------------------------------------------------------------
\* check_stream_state_type

VIDEO        == <<"v","i","d","e","o">>
LIVE         == <<"l","i","v","e">>
ON_ENDED     == <<"o","n"," ","e","n","d","e","d">>
ON_LIVE      == <<"o","n"," ","l","i","v","e">>
ON_SCHEDULED == <<"o","n"," ","s","c","h","e","d","u","l","e","d">>
UNKNOWN      == <<"U","N","K","N","O","W","N">>

LBC_none     == <<"n","o","n","e">>
LBC_live     == <<"l","i","v","e">>
LBC_upcoming == <<"u","p","c","o","m","i","n","g">>
US_processed == <<"p","r","o","c","e","s","s","e","d">>
US_uploaded  == <<"u","p","l","o","a","d","e","d">>

\* live_content_state_mapping.get(live_content, "UNKNOWN")
live_content_state_mapping(live_content) ==
    IF live_content = LBC_none THEN ON_ENDED
    ELSE IF live_content = LBC_live THEN ON_LIVE
    ELSE IF live_content = LBC_upcoming THEN ON_SCHEDULED
    ELSE UNKNOWN

\* mutant: an ended stream takes its type from the upload status like the
\* other states, and is a video otherwise
Mut_check_stream_state_type(item) ==
    LET stream_state ==
            live_content_state_mapping(item["snippet"]["liveBroadcastContent"])
        upload_status == item["status"]["uploadStatus"]
    IN  IF upload_status = US_uploaded THEN Ok(<<stream_state, LIVE>>)
        ELSE IF upload_status = US_processed \/ stream_state = ON_ENDED
        THEN Ok(<<stream_state, VIDEO>>)
        ELSE Raise("UnboundLocalError")

\* stream_type is assigned on three of the four branches only; the return
\* statement reads it unassigned on the fourth
check_stream_state_type(item) ==
    LET live_content  == item["snippet"]["liveBroadcastContent"]
        upload_status == item["status"]["uploadStatus"]
        stream_state  == live_content_state_mapping(live_content)
    IN  IF stream_state = ON_ENDED
        THEN IF "liveStreamingDetails" \in DOMAIN item
             THEN Ok(<<stream_state, VIDEO>>)
             ELSE Ok(<<stream_state, LIVE>>)
        ELSE IF upload_status = US_processed THEN Ok(<<stream_state, VIDEO>>)
        ELSE IF upload_status = US_uploaded THEN Ok(<<stream_state, LIVE>>)
        ELSE Raise("UnboundLocalError")

----------------------------------------------------------------------------
\* localize_stream_date, add_stream_time, isoformat

\* the configured timezone and the reading of the clock in it
timezone == "Asia/Tokyo"

UtcOffset(tz) == IF tz = "Asia/Tokyo" THEN <<"+","0","9",":","0","0">>
                 ELSE <<"+","0","0",":","0","0">>

Now == [year |-> 2024, month |-> 6, day |-> 1]

IsLeap(y) == (y % 4 = 0 /\ y % 100 # 0) \/ y % 400 = 0

DaysIn(y, m) ==
    IF m = 2 THEN (IF IsLeap(y) THEN 29 ELSE 28)
    ELSE IF m \in {4, 6, 9, 11} THEN 30 ELSE 31

\* (datetime.now(tz) - timedelta(days=1)).date(): a date, not a datetime
Yesterday(now) ==
    IF now.day > 1
    THEN [kind |-> "date", year |-> now.year, month |-> now.month,
          day |-> now.day - 1]
    ELSE IF now.month > 1
    THEN [kind |-> "date", year |-> now.year, month |-> now.month - 1,
          day |-> DaysIn(now.year, now.month - 1)]
    ELSE [kind |-> "date", year |-> now.year - 1, month |-> 12, day |-> 31]

\* tz.localize(datetime(year, month, day)): midnight of that day
localize_stream_date(stream_date, tz) ==
    LET fields == Split(Split(Strip(stream_date), " ")[1], "/")
    IN  IF Len(fields) # 2 \/ ~IsInt(fields[1]) \/ ~IsInt(fields[2])
        THEN Raise("ValueError")
        ELSE LET month == ParseInt(fields[1])
                 day   == ParseInt(fields[2])
                 year  == Now.year
             IN  IF month \notin 1..12 \/ day \notin 1..DaysIn(year, month)
                 THEN Raise("ValueError")
                 ELSE Ok([kind |-> "datetime", year |-> year, month |-> month,
                          day |-> day, hour |-> 0, minute |-> 0, second |-> 0,
                          tz |-> tz])

\* date.replace(hour=, minute=): datetime.date.replace takes no hour
add_stream_time(date, stream_time) ==
    LET fields == Split(Strip(stream_time), ":")
    IN  IF Len(fields) # 2 \/ ~IsInt(fields[1]) \/ ~IsInt(fields[2])
        THEN Raise("ValueError")
        ELSE LET hour   == ParseInt(fields[1])
                 minute == ParseInt(fields[2])
             IN  IF date.kind = "date" THEN Raise("TypeError")
                 ELSE IF hour > 23 \/ minute > 59 THEN Raise("ValueError")
                 ELSE Ok([date EXCEPT !.hour = hour, !.minute = minute])

\* datetime.isoformat() of an aware datetime without microseconds
isoformat(dt) ==
    Str(dt.year) \o <<"-">> \o Pad2(dt.month) \o <<"-">> \o Pad2(dt.day)
    \o <<"T">> \o Pad2(dt.hour) \o <<":">> \o Pad2(dt.minute)
    \o <<":">> \o Pad2(dt.second) \o UtcOffset(dt.tz)

----------------------------------------------------------------------------
\* process_data as a state machine

VARIABLES
    containers,          \* the page: soup.select("div#all > div.container")
    catalogue,           \* the metadata provider: video id -> item
    stray,               \* items the provider adds to every response
    pc,                  \* "container", "stream", "fetch", "merge", "done", "raised"
    exc,                 \* the exception that left process_data, or "none"
    last_stream_date,
    c,                   \* index of the container being scanned
    n,                   \* index of the stream item being scanned
    data,                \* the dict data, as a function on its keys
    data_keys,           \* the keys of data in insertion order
    scraped,             \* data as the scrape pass left it
    youtube_video_ids,
    i,                   \* offset of the next chunk in fetch_youtube_data
    youtube_items,       \* items, then youtube_items
    calls,               \* the calls made to the provider: [ids, ok]
    k                    \* index of the item being merged

vars == <<containers, catalogue, stray, pc, exc, last_stream_date, c, n, data,
          data_keys, scraped, youtube_video_ids, i, youtube_items, calls, k>>

max_ids_per_request == 50

\* data[key] = value on a dict
Put(d, key, value) ==
    [x \in (DOMAIN d) \cup {key} |-> IF x = key THEN value ELSE d[x]]

PutKey(keys, key) ==
    IF \E j \in 1..Len(keys) : keys[j] = key THEN keys ELSE Append(keys, key)

\* mutant: the record is created with its status defaulted
Mut_NewRecord(link, thumbnail, scheduled_start, short_name, collabs) ==
    [stream   |-> [link |-> link, thumbnail |-> thumbnail,
                   status |-> None],
     datetime |-> [scheduled_start |-> scheduled_start],
     channel  |-> [short_name |-> short_name,
                   collabs |-> collabs]]

\* the dict stored for one stream item
NewRecord(link, thumbnail, scheduled_start, short_name, collabs) ==
    [stream   |-> [link |-> link, thumbnail |-> thumbnail],
     datetime |-> [scheduled_start |-> scheduled_start],
     channel  |-> [short_name |-> short_name,
                   collabs |-> collabs]]

\* mutant: a container without header falls back to the initial date
Mut_ContainerDate(date_item, last) ==
    IF date_item # None THEN localize_stream_date(date_item, timezone)
    ELSE Ok(Yesterday(Now))

\* the date in force for a container: its date header if it has one
ContainerDate(date_item, last) ==
    IF date_item # None THEN localize_stream_date(date_item, timezone)
    ELSE Ok(last)

\* the key under which a stream item is stored
RecordKey(stream_link) == extract_id(stream_link)

\* top of the loop over containers
ScanContainer ==
    /\ pc = "container"
    /\ c <= Len(containers)
    /\ LET d == ContainerDate(containers[c].date_item, last_stream_date)
       IN  IF ~d.ok
           THEN /\ pc' = "raised"
                /\ exc' = d.exc
                /\ UNCHANGED <<last_stream_date, c, n>>
           ELSE /\ last_stream_date' = d.val
                /\ exc' = exc
                /\ IF containers[c].stream_items = <<>>
                   THEN pc' = "container" /\ c' = c + 1 /\ n' = n
                   ELSE pc' = "stream" /\ c' = c /\ n' = 1
    /\ UNCHANGED <<containers, catalogue, stray, data, data_keys, scraped,
                   youtube_video_ids, i, youtube_items, calls, k>>

\* one iteration of the loop over the stream items of a container
StreamItem ==
    /\ pc = "stream"
    /\ LET stream_item == containers[c].stream_items[n]
           stream_link == stream_item.href
           stream_id   == RecordKey(stream_link)
           _time       == Strip(stream_item.time)
           t           == add_stream_time(last_stream_date, _time)
           imgs        == stream_item.imgs
       IN  IF ~t.ok
           THEN /\ pc' = "raised"
                /\ exc' = t.exc
                /\ UNCHANGED <<c, n, data, data_keys>>
           ELSE /\ data' = Put(data, stream_id,
                               NewRecord(stream_link, imgs[2], isoformat(t.val),
                                         Strip(stream_item.name),
                                         Slice(imgs, 3, Len(imgs) + 1)))
                /\ data_keys' = PutKey(data_keys, stream_id)
                /\ exc' = exc
                /\ IF n < Len(containers[c].stream_items)
                   THEN pc' = "stream" /\ c' = c /\ n' = n + 1
                   ELSE pc' = "container" /\ c' = c + 1 /\ n' = 0
    /\ UNCHANGED <<containers, catalogue, stray, last_stream_date, scraped,
                   youtube_video_ids, i, youtube_items, calls, k>>

\* [vid for vid in video_ids if is_youtube_id(vid)]
EligibleIds(video_ids) == SelectSeq(video_ids, is_youtube_id)

\* the containers are exhausted: select the ids and enter fetch_youtube_data
EndScrape ==
    /\ pc = "container"
    /\ c > Len(containers)
    /\ youtube_video_ids' = EligibleIds(data_keys)
    /\ scraped' = data
    /\ pc' = "fetch"
    /\ i' = 0
    /\ UNCHANGED <<containers, catalogue, stray, exc, last_stream_date, c, n,
                   data, data_keys, youtube_items, calls, k>>

\* mutant: the slice is one id too long
Mut_Chunk(video_ids, off) ==
    Slice(video_ids, off + 1,
          Min(off + max_ids_per_request + 1, Len(video_ids)) + 1)

\* video_ids[i:i + max_ids_per_request]
Chunk(video_ids, off) ==
    Slice(video_ids, off + 1, Min(off + max_ids_per_request, Len(video_ids)) + 1)

\* range(0, len(video_ids), max_ids_per_request): the offset after off
NextOffset(off) == off + max_ids_per_request

\* response.get('items', []) of the provider for a list of ids
Response(chunk) ==
    LET known(id) == id \in DOMAIN catalogue
        found == SelectSeq(chunk, known)
    IN  [j \in 1..Len(found) |-> catalogue[found[j]]] \o stray

\* the call for one chunk returns
FetchChunk ==
    /\ pc = "fetch"
    /\ i < Len(youtube_video_ids)
    /\ LET chunk == Chunk(youtube_video_ids, i)
       IN  /\ youtube_items' = youtube_items \o Response(chunk)
           /\ calls' = Append(calls, [ids |-> chunk, ok |-> TRUE])
    /\ i' = NextOffset(i)
    /\ UNCHANGED <<containers, catalogue, stray, pc, exc, last_stream_date, c,
                   n, data, data_keys, scraped, youtube_video_ids, k>>

\* the call for one chunk raises: the except clause prints and goes on
FetchChunkFails ==
    /\ pc = "fetch"
    /\ i < Len(youtube_video_ids)
    /\ calls' = Append(calls, [ids |-> Chunk(youtube_video_ids, i), ok |-> FALSE])
    /\ i' = NextOffset(i)
    /\ UNCHANGED <<containers, catalogue, stray, pc, exc, last_stream_date, c,
                   n, data, data_keys, scraped, youtube_video_ids,
                   youtube_items, k>>

\* fetch_youtube_data returns items
FetchReturn ==
    /\ pc = "fetch"
    /\ i >= Len(youtube_video_ids)
    /\ pc' = "merge"
    /\ k' = 1
    /\ UNCHANGED <<containers, catalogue, stray, exc, last_stream_date, c, n,
                   data, data_keys, scraped, youtube_video_ids, i,
                   youtube_items, calls>>

\* mutant: the provider's value is stored even when it is null
Mut_MergedScheduledStart(item, record) ==
    Get(Get(item, "liveStreamingDetails", EmptyDict), "scheduledStartTime", None)

\* scheduled_start after the merge of item into a record
MergedScheduledStart(item, record) ==
    LET scheduled_start ==
            Get(Get(item, "liveStreamingDetails", EmptyDict),
                "scheduledStartTime", None)
    IN  IF scheduled_start = None
        THEN record["datetime"]["scheduled_start"]
        ELSE scheduled_start

\* the three update calls on data[stream_id]
MergedRecord(record, item, state_type, duration) ==
    LET snippet == Get(item, "snippet", EmptyDict)
        details == Get(item, "liveStreamingDetails", EmptyDict)
    IN  [record EXCEPT
            !["stream"] = Update(@,
                [title       |-> Get(snippet, "title", None),
                 description |-> sanitize_text(Get(snippet, "description", None)),
                 duration    |-> duration,
                 status      |-> state_type[1],
                 type        |-> state_type[2]]),
            !["datetime"] = Update(@,
                [scheduled_start |-> MergedScheduledStart(item, record),
                 actual_start    |-> Get(details, "actualStartTime", None),
                 actual_end      |-> Get(details, "actualEndTime", None)]),
            !["channel"] = Update(@,
                [name |-> Get(snippet, "channelTitle", None)])]

\* duration of an item: None, or the formatted parse of contentDetails.duration
ItemDuration(item) ==
    LET duration == Get(Get(item, "contentDetails", EmptyDict), "duration", None)
    IN  IF duration = None THEN Ok(None)
        ELSE LET parsed == parse_duration(duration)
             IN  IF parsed.ok THEN Ok(format_duration(parsed.val)) ELSE parsed

\* "if stream_id in data"
Matches(stream_id, d) == stream_id \in DOMAIN d

\* one iteration of the loop over youtube_items
MergeItem ==
    /\ pc = "merge"
    /\ k <= Len(youtube_items)
    /\ LET item      == youtube_items[k]
           stream_id == item["id"]
       IN  IF ~Matches(stream_id, data)
           THEN /\ k' = k + 1
                /\ UNCHANGED <<pc, exc, data>>
           ELSE LET st  == check_stream_state_type(item)
                    dur == ItemDuration(item)
                IN  IF ~st.ok
                    THEN pc' = "raised" /\ exc' = st.exc /\ UNCHANGED <<k, data>>
                    ELSE IF ~dur.ok
                    THEN pc' = "raised" /\ exc' = dur.exc /\ UNCHANGED <<k, data>>
                    ELSE /\ data' = [data EXCEPT ![stream_id] =
                                        MergedRecord(@, item, st.val, dur.val)]
                         /\ k' = k + 1
                         /\ UNCHANGED <<pc, exc>>
    /\ UNCHANGED <<containers, catalogue, stray, last_stream_date, c, n,
                   data_keys, scraped, youtube_video_ids, i, youtube_items,
                   calls>>

\* return data
Return ==
    /\ pc = "merge"
    /\ k > Len(youtube_items)
    /\ pc' = "done"
    /\ UNCHANGED <<containers, catalogue, stray, exc, last_stream_date, c, n,
                   data, data_keys, scraped, youtube_video_ids, i,
                   youtube_items, calls, k>>

----------------------------------------------------------------------------
\* inputs: pages and provider catalogues

MaxEntries     == 3
BigContainers  == 3
BigStreamItems == 36

SeqsUpTo(S, m) == UNION {[1..j -> S] : j \in 0..m}

L_watchurl == <<"h","t","t","p","s",":","/","/","w","w","w",".","y","o","u",
                "t","u","b","e",".","c","o","m","/","w","a","t","c","h","?",
                "v","=">>
L_shorturl == <<"h","t","t","p","s",":","/","/","y","o","u","t","u",".","b",
                "e","/">>

Id1 == <<"d","Q","w","4","w","9","W","g","X","c","Q">>
Id2 == <<"9","b","Z","k","p","7","q","1","9","f","0">>
StrayId == <<"s","t","r","a","y","V","i","d","e","o","0">>

AbemaLink  == <<"h","t","t","p","s",":","/","/","a","b","e","m","a",".","t",
                "v","/","c","h","a","n","n","e","l","s","/","s","p","e","c",
                "i","a","l","-","p","l","u","s","/","s","l","o","t","s","/",
                "E","Q","Y","y","A","b","c","d","E","f">>
TwitchLink == <<"h","t","t","p","s",":","/","/","w","w","w",".","t","w","i",
                "t","c","h",".","t","v","/","e","x","a","m","p","l","e">>

Img(x) == <<"i","m","g",x>>

FragYt1 == [href |-> L_watchurl \o Id1, time |-> <<" ","0","9",":","0","0">>,
            name |-> <<"A","\n">>, imgs |-> <<Img("a"), Img("1")>>]
FragYt2 == [href |-> L_shorturl \o Id2, time |-> <<"2","3",":","5","9">>,
            name |-> <<"B">>, imgs |-> <<Img("b"), Img("2"), Img("x"), Img("y")>>]
FragAbema == [href |-> AbemaLink, time |-> <<"1","0",":","3","0">>,
              name |-> <<"C">>, imgs |-> <<Img("c"), Img("3"), Img("z")>>]
FragTwitch == [href |-> TwitchLink, time |-> <<"1","1",":","0","0">>,
               name |-> <<"D">>, imgs |-> <<Img("d"), Img("4")>>]

Header1 == <<"6","/","1"," ","(","S","a","t",")">>
Header2 == <<"1","2","/","3","1">>

\* provider items
Title       == <<"A"," ","t","i","t","l","e">>
Description == <<"a","\n","b">>
Channel     == <<"C","h","a","n","n","e","l">>
TimeSched   == <<"2","0","2","4","-","0","6","-","0","3","T","1","2",":","0",
                 "0",":","0","0","Z">>
TimeStart   == <<"2","0","2","4","-","0","6","-","0","3","T","1","2",":","0",
                 "1",":","0","7","Z">>
TimeEnd     == <<"2","0","2","4","-","0","6","-","0","3","T","1","3",":","0",
                 "0",":","0","0","Z">>

LiveContents == {LBC_none, LBC_live, LBC_upcoming,
                 <<"p","r","e","m","i","e","r","e">>}
UploadStatuses == {US_processed, US_uploaded, <<"r","e","j","e","c","t","e","d">>}
DetailKinds == {"absent", "null", "actual", "full"}
Durations == {None, <<"P","T","1","H","5","M","3","S">>,
              <<"P","1","D","T","2","H">>, <<"1",":","0","5",":","0","3">>}

Metas == [lbc : LiveContents, us : UploadStatuses, lsd : DetailKinds,
          dur : Durations]

MakeItem(id, m) ==
    LET base == [id |-> id,
                 snippet |-> [liveBroadcastContent |-> m.lbc, title |-> Title,
                              description |-> Description,
                              channelTitle |-> Channel],
                 status |-> [uploadStatus |-> m.us]]
        cd == IF m.dur = None THEN EmptyDict
              ELSE [contentDetails |-> [duration |-> m.dur]]
        ld == IF m.lsd = "absent" THEN EmptyDict
              ELSE IF m.lsd = "null"
              THEN [liveStreamingDetails |-> [scheduledStartTime |-> None]]
              ELSE IF m.lsd = "actual"
              THEN [liveStreamingDetails |->
                        [actualStartTime |-> TimeStart, actualEndTime |-> TimeEnd]]
              ELSE [liveStreamingDetails |->
                        [scheduledStartTime |-> TimeSched,
                         actualStartTime |-> TimeStart]]
    IN  Update(Update(base, cd), ld)

GoodMeta == [lbc |-> LBC_live, us |-> US_uploaded, lsd |-> "full",
             dur |-> <<"P","T","1","H","5","M","3","S">>]
EndedMeta == [lbc |-> LBC_none, us |-> US_processed, lsd |-> "absent",
              dur |-> <<"P","1","D","T","2","H">>]
UnboundMeta == [lbc |-> LBC_live, us |-> <<"r","e","j","e","c","t","e","d">>,
                lsd |-> "null", dur |-> None]
BadDurationMeta == [lbc |-> LBC_upcoming, us |-> US_uploaded, lsd |-> "actual",
                    dur |-> <<"1",":","0","5",":","0","3">>]

\* the provider has no item for the id
AbsentMeta == [lbc |-> None, us |-> None, lsd |-> "absent", dur |-> None]

StrayItem == MakeItem(StrayId, GoodMeta)

\* catalogue in which each id of ids has the item of metas, unless AbsentMeta
CatalogueOf(ids, metas) ==
    [id \in {ids[j] : j \in {x \in 1..Len(ids) : metas[x] # AbsentMeta}} |->
        MakeItem(id, metas[CHOOSE j \in 1..Len(ids) : ids[j] = id])]

\* pages of up to MaxEntries entries; an entry opens a container, with a date
\* header or without one, or goes on in the open container (Same), and holds
\* one stream item or none
Same   == <<"same">>
NoItem == <<>>

Entries == [header : {Same, None, Header1, Header2},
            item : {FragYt1, FragTwitch, NoItem}]

RECURSIVE BuildPage(_)
BuildPage(es) ==
    IF es = <<>> THEN <<>>
    ELSE LET page  == BuildPage(Slice(es, 1, Len(es)))
             e     == es[Len(es)]
             items == IF e.item = NoItem THEN <<>> ELSE <<e.item>>
         IN  IF e.header = Same /\ page # <<>>
             THEN [page EXCEPT ![Len(page)].stream_items = @ \o items]
             ELSE Append(page,
                         [date_item |-> IF e.header = Same THEN None ELSE e.header,
                          stream_items |-> items])

ScrapePages == {BuildPage(es) : es \in SeqsUpTo(Entries, MaxEntries)}

MergePage ==
    << [date_item |-> Header1, stream_items |-> <<FragYt1, FragAbema>>],
       [date_item |-> None,    stream_items |-> <<FragYt2, FragTwitch>>] >>

\* a page of BigContainers * BigStreamItems stream items
Pad3(j) == <<Digits[(j \div 100) + 1], Digits[((j \div 10) % 10) + 1],
             Digits[(j % 10) + 1]>>

BigId(j) == <<"v","i","d","-","b","i","g","_">> \o Pad3(j)

NBig == BigContainers * BigStreamItems

\* every 17th item is a stream of the other provider
BigFrag(j) ==
    [href |-> IF j % 17 = 0 THEN AbemaLink \o Pad3(j)
              ELSE (IF j % 2 = 0 THEN L_watchurl ELSE L_shorturl) \o BigId(j),
     time |-> Pad2(j % 24) \o <<":">> \o Pad2(j % 60),
     name |-> <<"E">>,
     imgs |-> <<Img("e"), Img("5")>>]

\* the first size stream items of the page, BigStreamItems to a container
BigPageOf(size) ==
    [g \in 1..((size + BigStreamItems - 1) \div BigStreamItems) |->
        [date_item |-> IF g = 1 THEN Header1
                       ELSE IF g % 2 = 0 THEN None ELSE Header2,
         stream_items |->
             [x \in 1..Min(BigStreamItems, size - (g - 1) * BigStreamItems) |->
                 BigFrag((g - 1) * BigStreamItems + x)]]]

BigPatterns == {"good", "gaps", "unbound", "baddur"}

BigMeta(pattern, j) ==
    IF pattern = "gaps" /\ j % 7 = 0 THEN AbsentMeta
    ELSE IF pattern = "unbound" /\ j = 60 THEN UnboundMeta
    ELSE IF pattern = "baddur" /\ j = 3 THEN BadDurationMeta
    ELSE IF j % 3 = 0 THEN EndedMeta ELSE GoodMeta

BigCatalogue(pattern) ==
    CatalogueOf([j \in 1..NBig |-> BigId(j)],
                [j \in 1..NBig |-> BigMeta(pattern, j)])

\* the state at entry of process_data for a page and a provider
Start(page, cat, extra) ==
    /\ containers = page
    /\ catalogue = cat
    /\ stray = extra
    /\ pc = "container"
    /\ exc = "none"
    /\ last_stream_date = Yesterday(Now)
    /\ c = 1
    /\ n = 0
    /\ data = EmptyDict
    /\ data_keys = <<>>
    /\ scraped = EmptyDict
    /\ youtube_video_ids = <<>>
    /\ i = 0
    /\ youtube_items = <<>>
    /\ calls = <<>>
    /\ k = 0

InitScrape ==
    \E page \in ScrapePages :
        Start(page, CatalogueOf(<<Id1>>, <<GoodMeta>>), <<>>)

InitMerge ==
    \E m1 \in Metas \cup {AbsentMeta},
       m2 \in {GoodMeta, UnboundMeta, BadDurationMeta, AbsentMeta},
       extra \in {<<>>, <<StrayItem>>} :
        Start(MergePage, CatalogueOf(<<Id1, Id2>>, <<m1, m2>>), extra)

\* the whole page under each catalogue, and the pages of exactly
\* max_ids_per_request eligible ids and of one more
InitBatch ==
    \/ \E pattern \in BigPatterns :
           Start(BigPageOf(NBig), BigCatalogue(pattern), <<>>)
    \/ \E size \in {52, 54} :
           Start(BigPageOf(size), BigCatalogue("good"), <<>>)

Init == InitScrape \/ InitMerge

Next ==
    \/ ScanContainer
    \/ StreamItem
    \/ EndScrape
    \/ FetchChunk
    \/ FetchChunkFails
    \/ FetchReturn
    \/ MergeItem
    \/ Return


Spec == Init /\ [][Next]_vars

\* the runs over the page of more than two batches
SpecBatch == InitBatch /\ [][Next]_vars

----------------------------------------------------------------------------
\* the claims

\* the scrape pass is over and fetch_youtube_data has been entered
PastScrape == pc \in {"fetch", "merge", "done"} \/ (pc = "raised" /\ k >= 1)

\* fetch_youtube_data has returned
PastFetch == pc \in {"merge", "done"} \/ (pc = "raised" /\ k >= 1)

\* an item with this id has been merged into its record
Merged(id) == \E j \in 1..(k - 1) : youtube_items[j]["id"] = id

\* the date header in force for container g: the last one at or before g
HeaderInForce(g) ==
    LET with == {h \in 1..g : containers[h].date_item # None}
    IN  IF with = {} THEN None
        ELSE containers[CHOOSE h \in with : \A x \in with : x <= h].date_item

\* the stream item scanned last, as <<container, index>>, or <<>>
LastScanned ==
    IF pc = "stream" /\ n > 1 THEN <<c, n - 1>>
    ELSE IF pc = "container" /\ c > 1 /\ containers[c - 1].stream_items # <<>>
    THEN <<c - 1, Len(containers[c - 1].stream_items)>>
    ELSE <<>>

\* a record has the fields of the scrape pass and no other
PlainRecord(r) ==
    /\ DOMAIN r = {"stream", "datetime", "channel"}
    /\ DOMAIN r["stream"] = {"link", "thumbnail"}
    /\ DOMAIN r["datetime"] = {"scheduled_start"}
    /\ DOMAIN r["channel"] = {"short_name", "collabs"}

\* C1: every key of the record mapping is a non-empty identifier; a stream
\* item whose link yields no identifier stores no record.
C1_KeysAreIdentifiers ==
    \A key \in DOMAIN data : key # None /\ key # <<>>

\* the scheduledStartTime an item supplies, None when it supplies none
SuppliedStart(item) ==
    IF "liveStreamingDetails" \in DOMAIN item
       /\ "scheduledStartTime" \in DOMAIN item["liveStreamingDetails"]
    THEN item["liveStreamingDetails"]["scheduledStartTime"]
    ELSE None

\* C2: scheduled_start of every record is never None; once an item is merged
\* it is the item's scheduledStartTime when that is not null, and the scraped
\* value otherwise.
C2_ScheduledStartKept ==
    \A id \in DOMAIN data :
        LET start == data[id]["datetime"]["scheduled_start"]
        IN  /\ start # None
            /\ \A j \in 1..(k - 1) :
                   youtube_items[j]["id"] = id =>
                       IF SuppliedStart(youtube_items[j]) # None
                       THEN start = SuppliedStart(youtube_items[j])
                       ELSE start = scraped[id]["datetime"]["scheduled_start"]

\* a merge that kept the scraped value and a merge that replaced it
C2_Witness ==
    /\ pc = "done"
    /\ \E j \in 1..Len(youtube_items) :
           /\ youtube_items[j]["id"] \in DOMAIN data
           /\ "liveStreamingDetails" \in DOMAIN youtube_items[j]
           /\ SuppliedStart(youtube_items[j]) = None
    /\ \E j \in 1..Len(youtube_items) :
           /\ youtube_items[j]["id"] \in DOMAIN data
           /\ SuppliedStart(youtube_items[j]) # None

\* C3: when the call for one batch fails, the other batches are still
\* requested and their items merged: the run does not fail, at its end the
\* records of the batches that succeeded are enriched and those of the
\* batches that failed are as scraped.
C3_BatchFailureIsolated ==
    (\E j \in 1..Len(calls) : ~calls[j].ok) =>
        /\ pc # "raised"
        /\ pc = "done" =>
               \A j \in 1..Len(calls) : \A x \in 1..Len(calls[j].ids) :
                   LET id == calls[j].ids[x]
                   IN  IF calls[j].ok /\ id \in DOMAIN catalogue
                       THEN "status" \in DOMAIN data[id]["stream"]
                       ELSE data[id] = scraped[id]

\* C4: an item whose duration fails to parse does not abort the merge of the
\* other items: the run goes past it.
C4_ItemFailureIsolated ==
    \A j \in 1..Len(youtube_items) :
        LET item == youtube_items[j]
        IN  (/\ k = j
             /\ Matches(item["id"], data)
             /\ check_stream_state_type(item).ok
             /\ ~ItemDuration(item).ok) => pc # "raised"

\* C5: check_stream_state_type raises for no item, and no run ends in the
\* exception of its return statement.
C5_ClassifyNeverRaises ==
    /\ \A j \in 1..Len(youtube_items) :
           check_stream_state_type(youtube_items[j]).ok
    /\ exc # "UnboundLocalError"

\* the classification table
TableStatus(live_content) ==
    CASE live_content = LBC_none     -> ON_ENDED
      [] live_content = LBC_live     -> ON_LIVE
      [] live_content = LBC_upcoming -> ON_SCHEDULED
      [] OTHER                       -> UNKNOWN

TableType(status, upload_status, timing) ==
    CASE status = ON_ENDED /\ timing             -> VIDEO
      [] status = ON_ENDED /\ ~timing            -> LIVE
      [] status # ON_ENDED /\ upload_status = US_processed -> VIDEO
      [] status # ON_ENDED /\ upload_status = US_uploaded  -> LIVE
      [] OTHER                                   -> None

TableRow(item) ==
    LET status == TableStatus(item["snippet"]["liveBroadcastContent"])
    IN  <<status, TableType(status, item["status"]["uploadStatus"],
                            "liveStreamingDetails" \in DOMAIN item)>>

\* C6: for every item on which a type is defined, check_stream_state_type
\* returns the pair of the classification table, and the record into which
\* the item is merged carries that pair.
C6_ClassificationTable ==
    /\ \A j \in 1..Len(youtube_items) :
           LET r == check_stream_state_type(youtube_items[j])
           IN  TableRow(youtube_items[j])[2] # None =>
                   r.ok /\ r.val = TableRow(youtube_items[j])
    /\ \A j \in 1..(k - 1) :
           LET item == youtube_items[j]
           IN  item["id"] \in DOMAIN data =>
                   /\ data[item["id"]]["stream"]["status"] = TableRow(item)[1]
                   /\ data[item["id"]]["stream"]["type"] = TableRow(item)[2]

\* an ended item without timing block merged as live, beside an item that
\* is live
C6_Witness ==
    /\ pc = "done"
    /\ \E id \in DOMAIN data :
           /\ Merged(id)
           /\ data[id]["stream"]["status"] = ON_ENDED
           /\ data[id]["stream"]["type"] = LIVE
    /\ \E id \in DOMAIN data :
           /\ Merged(id)
           /\ data[id]["stream"]["status"] = ON_LIVE
           /\ data[id]["stream"]["type"] = LIVE

\* the scheduled start of a stream item at time_text on the day of date
ExpectedStart(date, time_text) ==
    Slice(isoformat(date), 1, 11) \o <<"T">> \o Strip(time_text)
    \o <<":","0","0">> \o UtcOffset(timezone)

\* C7: while the containers are scanned, the running date is the date of the
\* last container that had a date header, and the record of the stream item
\* scanned last has that date with the item's own HH:MM.
C7_DateCarryForward ==
    /\ (pc = "stream" /\ HeaderInForce(c) # None) =>
           last_stream_date = localize_stream_date(HeaderInForce(c), timezone).val
    /\ (pc = "container" /\ c > 1 /\ HeaderInForce(c - 1) # None) =>
           last_stream_date =
               localize_stream_date(HeaderInForce(c - 1), timezone).val
    /\ (LastScanned # <<>> /\ HeaderInForce(LastScanned[1]) # None) =>
           LET g    == LastScanned[1]
               item == containers[g].stream_items[LastScanned[2]]
               key  == extract_id(item.href)
           IN  /\ key \in DOMAIN data
               /\ data[key]["datetime"]["scheduled_start"] =
                      ExpectedStart(
                          localize_stream_date(HeaderInForce(g), timezone).val,
                          item.time)

\* a stream item of a container without header, scanned under the date of an
\* earlier container
C7_Witness ==
    /\ LastScanned # <<>>
    /\ containers[LastScanned[1]].date_item = None
    /\ HeaderInForce(LastScanned[1]) # None

\* C8: with no date header so far, the stream items are stored under
\* yesterday's date and the scrape pass raises nothing.
C8_DefaultDateUsable ==
    /\ (c <= Len(containers) /\ HeaderInForce(c) = None) => pc # "raised"
    /\ (LastScanned # <<>> /\ HeaderInForce(LastScanned[1]) = None) =>
           LET item == containers[LastScanned[1]].stream_items[LastScanned[2]]
           IN  extract_id(item.href) \in DOMAIN data

\* the ids of all the calls made so far, in the order of the calls
RequestedIds == Flatten([j \in 1..Len(calls) |-> calls[j].ids])

\* C9: every call carries between 1 and max_ids_per_request ids; the ids
\* requested are keys that pass is_youtube_id, none is requested twice, and
\* once fetch_youtube_data has returned they are all the keys that pass.
C9_BatchesPartitionEligibleKeys ==
    LET requested == RequestedIds
        idset     == {requested[x] : x \in 1..Len(requested)}
    IN  /\ \A j \in 1..Len(calls) :
               /\ Len(calls[j].ids) >= 1
               /\ Len(calls[j].ids) <= max_ids_per_request
        /\ Cardinality(idset) = Len(requested)
        /\ \A id \in idset : id \in DOMAIN data /\ is_youtube_id(id)
        /\ PastFetch =>
               \A key \in DOMAIN data : is_youtube_id(key) => key \in idset

\* three calls were made and some key was not eligible
C9_Witness ==
    /\ pc = "merge"
    /\ Len(calls) >= 3
    /\ \E key \in DOMAIN data : ~is_youtube_id(key)

\* C10: a record into which no item was merged has the scraped fields and no
\* other, and after the scrape pass it is the record the scrape pass left;
\* the merge pass adds no key to the mapping and removes none.
C10_UnmergedRecordsUntouched ==
    /\ \A id \in DOMAIN data :
           Merged(id) \/ (/\ PlainRecord(data[id])
                          /\ PastScrape => data[id] = scraped[id])
    /\ PastScrape => DOMAIN data = DOMAIN scraped

\* at the end of a run: an item that matched no record, an eligible record
\* without item, and a record that was merged
C10_Witness ==
    /\ pc = "done"
    /\ \E j \in 1..Len(youtube_items) : youtube_items[j]["id"] \notin DOMAIN data
    /\ \E id \in DOMAIN data : is_youtube_id(id) /\ ~Merged(id)
    /\ \E id \in DOMAIN data : Merged(id) /\ ~PlainRecord(data[id])

====
